---- MODULE Spec2Model ----
(***************************************************************************)
(* Model of src/index.js: the GET /scrape handler and its inner function   *)
(* findMinimalM3u8Link.  One handler invocation ("session") launches a     *)
(* browser, installs a request interception callback, starts navigation,   *)
(* races the capture signal against a timer, closes the browser and sends  *)
(* the response.                                                           *)
(*                                                                         *)
(* JavaScript runs each callback to its next await without interleaving,   *)
(* so every action below is one such run: the code from one suspension     *)
(* point to the next.                                                      *)
(***************************************************************************)
EXTENDS Integers, Sequences, FiniteSets, TLC

VARIABLES
    pc,          \* position of the main flow of each handler invocation
    url,         \* argument of findMinimalM3u8Link
    browser,     \* `browser` local: "null", "live", "closed", "closeFailed"
    m3u8Link,    \* `m3u8Link` local
    resolved,    \* linkFoundPromise has been resolved
    timer,       \* the setTimeout of the race: "unset", "pending", "fired"
    winner,      \* what settled Promise.race: "none", "link", "timer"
    nav,         \* page.goto promise: "none", "pending", "ok", "failed"
    intercept,   \* request interception as set on the page: "off", "on"
    reqs,        \* requests observed by page.on("request"), in order
    closeCalls,  \* number of browser.close() invocations
    response     \* bodies passed to res.send, in order

vars == <<pc, url, browser, m3u8Link, resolved, timer, winner, nav,
          intercept, reqs, closeCalls, response>>

----------------------------------------------------------------------------
(* Values *)

\* JavaScript null / undefined
Null == [null |-> TRUE]

\* A JavaScript string, as its sequence of characters
Str(s) == [str |-> s]

\* JavaScript truthiness of a value that is null or a string
Truthy(v) == v # Null /\ v.str # << >>

\* ".m3u8"
Suffix == <<".", "m", "3", "u", "8">>

\* targetUrl (abbreviated)
TargetUrl == <<"h", "t", "t", "p", "s", ":">>

\* Request URLs the page may issue: two manifests, a script shorter than
\* the suffix, and a URL that contains the suffix without ending in it.
UrlA == <<"a", ".", "m", "3", "u", "8">>
UrlB == <<"b", ".", "m", "3", "u", "8">>
UrlX == <<"x", ".", "j", "s">>
UrlY == <<".", "m", "3", "u", "8", "?">>
Urls == {UrlA, UrlB, UrlX, UrlY}

\* Bound on the number of requests observed over all sessions
MaxRequests == 2

\* String.prototype.includes (not used by the program)
Includes(s, suf) ==
    \E i \in 1..(Len(s) - Len(suf) + 1) : SubSeq(s, i, i + Len(suf) - 1) = suf

\* String.prototype.endsWith
EndsWith(s, suf) ==
    /\ Len(s) >= Len(suf)
    /\ SubSeq(s, Len(s) - Len(suf) + 1, Len(s)) = suf

----------------------------------------------------------------------------
(* Decisions of the code *)

UrlUndefined(u) == u = Null

\* `if (!url)`
UrlMissing(u) == ~Truthy(u)

CaptureUnguarded(requestUrl, link) == EndsWith(requestUrl, Suffix)

CaptureIncludes(requestUrl, link) == Includes(requestUrl, Suffix) /\ ~Truthy(link)

\* `if (requestUrl.endsWith(".m3u8") && !m3u8Link)`
IsCapture(requestUrl, link) == EndsWith(requestUrl, Suffix) /\ ~Truthy(link)

ContinueNever(requestUrl, link) == FALSE

\* `else if (!m3u8Link)`
IsContinue(requestUrl, link) == ~IsCapture(requestUrl, link) /\ ~Truthy(link)

NeverCloses(b) == FALSE

\* `if (browser)` of the finally block
FinallyCloses(b) == b # "null"

\* Handler invocations: one, or two concurrent ones
OneSession == {1}
TwoSessions == {1, 2}

SharedScope(r) == TwoSessions

(* The invocations whose closures see the locals (m3u8Link,                 *)
(* linkFoundResolver, ...) created by invocation r: they are declared       *)
(* inside the route handler, so only r itself.                              *)
Scope(r) == {r}

----------------------------------------------------------------------------
(* State *)

Init ==
    /\ pc = [r \in TwoSessions |-> "idle"]
    /\ url = [r \in TwoSessions |-> Null]
    /\ browser = [r \in TwoSessions |-> "null"]
    /\ m3u8Link = [r \in TwoSessions |-> Null]
    /\ resolved = [r \in TwoSessions |-> FALSE]
    /\ timer = [r \in TwoSessions |-> "unset"]
    /\ winner = [r \in TwoSessions |-> "none"]
    /\ nav = [r \in TwoSessions |-> "none"]
    /\ intercept = [r \in TwoSessions |-> "off"]
    /\ reqs = [r \in TwoSessions |-> << >>]
    /\ closeCalls = [r \in TwoSessions |-> 0]
    /\ response = [r \in TwoSessions |-> << >>]

\* Number of requests observed so far, over all sessions
Observed == Len(reqs[1]) + Len(reqs[2])

ReturnFrozen(r, link) == IF winner[r] = "timer" THEN Null ELSE link

\* `return m3u8Link` of invocation r, with link the value of m3u8Link
ReturnValue(r, link) == link

\* The browser process of session r is running: launched and not yet closed
SessionLive(r) == browser[r] = "live" /\ pc[r] \in {"wait", "closing"}

\* page.on("request", ...) has registered the callback of session r; the
\* same run starts page.goto
Listening(r) == nav[r] # "none"

(* The end of findMinimalM3u8Link from the finally block on, entered with   *)
(* link as the value of m3u8Link: browser.close() is called and awaited     *)
(* when a browser exists; otherwise the function returns and the route      *)
(* handler sends the response in the same run.                              *)
Finally(r, link) ==
    IF FinallyCloses(browser[r])
    THEN /\ pc' = [pc EXCEPT ![r] = "closing"]
         /\ closeCalls' = [closeCalls EXCEPT ![r] = @ + 1]
         /\ UNCHANGED response
    ELSE /\ pc' = [pc EXCEPT ![r] = "responded"]
         /\ response' = [response EXCEPT ![r] = Append(@, [link |-> ReturnValue(r, link)])]
         /\ UNCHANGED closeCalls

----------------------------------------------------------------------------
(* Main flow of findMinimalM3u8Link *)

(* The route handler calls findMinimalM3u8Link(u).  A missing url returns   *)
(* null at once and the handler responds; otherwise the function runs to    *)
(* `await puppeteer.launch(...)`.                                           *)
Call(r, U) ==
    /\ pc[r] = "idle"
    /\ \E u \in U :
        /\ url' = [url EXCEPT ![r] = u]
        /\ IF UrlMissing(u)
           THEN /\ pc' = [pc EXCEPT ![r] = "responded"]
                /\ response' = [response EXCEPT ![r] = Append(@, [link |-> Null])]
           ELSE /\ pc' = [pc EXCEPT ![r] = "launch"]
                /\ UNCHANGED response
    /\ UNCHANGED <<browser, m3u8Link, resolved, timer, winner, nav, intercept,
                   reqs, closeCalls>>

\* puppeteer.launch resolves; the flow runs to `await browser.newPage()`
LaunchOk(r) ==
    /\ pc[r] = "launch"
    /\ browser' = [browser EXCEPT ![r] = "live"]
    /\ pc' = [pc EXCEPT ![r] = "newPage"]
    /\ UNCHANGED <<url, m3u8Link, resolved, timer, winner, nav, intercept,
                   reqs, closeCalls, response>>

\* puppeteer.launch rejects: catch, then finally with `browser` still null
LaunchFail(r) ==
    /\ pc[r] = "launch"
    /\ Finally(r, m3u8Link[r])
    /\ UNCHANGED <<url, browser, m3u8Link, resolved, timer, winner, nav,
                   intercept, reqs>>

\* browser.newPage resolves; the flow runs to `await page.setUserAgent(...)`
NewPageOk(r) ==
    /\ pc[r] = "newPage"
    /\ pc' = [pc EXCEPT ![r] = "setUserAgent"]
    /\ UNCHANGED <<url, browser, m3u8Link, resolved, timer, winner, nav,
                   intercept, reqs, closeCalls, response>>

\* page.setUserAgent resolves; the flow runs to
\* `await page.setRequestInterception(true)`
SetUserAgentOk(r) ==
    /\ pc[r] = "setUserAgent"
    /\ pc' = [pc EXCEPT ![r] = "setInterception"]
    /\ UNCHANGED <<url, browser, m3u8Link, resolved, timer, winner, nav,
                   intercept, reqs, closeCalls, response>>

(* page.setRequestInterception(true) resolves; the flow registers the       *)
(* request callback, starts page.goto without awaiting it, starts the       *)
(* timer and suspends on Promise.race.                                      *)
SetInterceptionOk(r) ==
    /\ pc[r] = "setInterception"
    /\ intercept' = [intercept EXCEPT ![r] = "on"]
    /\ nav' = [nav EXCEPT ![r] = "pending"]
    /\ timer' = [timer EXCEPT ![r] = "pending"]
    /\ pc' = [pc EXCEPT ![r] = "wait"]
    /\ UNCHANGED <<url, browser, m3u8Link, resolved, winner, reqs, closeCalls,
                   response>>

\* newPage, setUserAgent or setRequestInterception(true) rejects: catch,
\* then finally with a launched browser
SetupFail(r) ==
    /\ pc[r] \in {"newPage", "setUserAgent", "setInterception"}
    /\ Finally(r, m3u8Link[r])
    /\ UNCHANGED <<url, browser, m3u8Link, resolved, timer, winner, nav,
                   intercept, reqs>>

\* page.goto resolves: nothing is attached to its fulfilment
NavOk(r) ==
    /\ nav[r] = "pending"
    /\ SessionLive(r)
    /\ nav' = [nav EXCEPT ![r] = "ok"]
    /\ UNCHANGED <<pc, url, browser, m3u8Link, resolved, timer, winner,
                   intercept, reqs, closeCalls, response>>

NavFailureThrows == TRUE

(* Whether a rejection of page.goto reaches the try block of                *)
(* findMinimalM3u8Link: the promise is not awaited and carries its own      *)
(* .catch, so it does not.                                                  *)
NavFailureEscalates == FALSE

(* page.goto rejects (timeout, browser closed): the .catch callback reads   *)
(* m3u8Link to choose what it logs.  Were the rejection to reach the try    *)
(* block while the flow waits, the flow would enter catch and finally.      *)
NavFail(r) ==
    /\ nav[r] = "pending"
    /\ nav' = [nav EXCEPT ![r] = "failed"]
    /\ IF NavFailureEscalates /\ pc[r] = "wait"
       THEN Finally(r, m3u8Link[r])
       ELSE UNCHANGED <<pc, closeCalls, response>>
    /\ UNCHANGED <<url, browser, m3u8Link, resolved, timer, winner,
                   intercept, reqs>>

(* The timer of the race fires.  It is never cleared, so it fires whatever  *)
(* the main flow is doing; when the flow is still suspended on the race it  *)
(* resumes and enters the finally block.                                    *)
TimerFire(r) ==
    /\ timer[r] = "pending"
    /\ timer' = [timer EXCEPT ![r] = "fired"]
    /\ IF pc[r] = "wait"
       THEN /\ winner' = [winner EXCEPT ![r] = "timer"]
            /\ Finally(r, m3u8Link[r])
       ELSE UNCHANGED <<winner, pc, closeCalls, response>>
    /\ UNCHANGED <<url, browser, m3u8Link, resolved, nav, intercept, reqs>>

\* browser.close() resolves; the function returns m3u8Link and the route
\* handler sends it
CloseOk(r) ==
    /\ pc[r] = "closing"
    /\ browser' = [browser EXCEPT ![r] = "closed"]
    /\ pc' = [pc EXCEPT ![r] = "responded"]
    /\ response' = [response EXCEPT ![r] =
                        Append(@, [link |-> ReturnValue(r, m3u8Link[r])])]
    /\ UNCHANGED <<url, m3u8Link, resolved, timer, winner, nav, intercept,
                   reqs, closeCalls>>

(* browser.close() rejects inside the finally block: nothing catches it,    *)
(* the promise of findMinimalM3u8Link rejects, the route handler's await    *)
(* throws and res.send is never reached.                                    *)
CloseFail(r) ==
    /\ pc[r] = "closing"
    /\ browser' = [browser EXCEPT ![r] = "closeFailed"]
    /\ pc' = [pc EXCEPT ![r] = "rejected"]
    /\ UNCHANGED <<url, m3u8Link, resolved, timer, winner, nav, intercept,
                   reqs, closeCalls, response>>

----------------------------------------------------------------------------
(* The page.on("request") callback *)

(* One observed request.  icpt: interception was enabled on the page when   *)
(* the request was issued, so that continue() and abort() apply to it.      *)
(* state: "paused" (held by the browser), "continued", "aborted", or "free" *)
(* (it runs without any decision of the callback).  h: the callback is      *)
(* suspended on setRequestInterception(false) ("disable") or has finished   *)
(* ("done").  handled: request.isInterceptResolutionHandled().  calls: the  *)
(* continue() and abort() calls the callback made on it.  swallowed: errors *)
(* caught inside the callback.  escaped: errors that left the callback as   *)
(* an unhandled rejection.                                                  *)
Request(u, icpt, before, h) ==
    [url |-> u, icpt |-> icpt, beforeDeadline |-> before,
     state |-> IF icpt THEN "paused" ELSE "free",
     h |-> h, handled |-> FALSE, calls |-> 0, swallowed |-> 0, escaped |-> 0]

EscapingAll(n) == n

(* Of n errors thrown inside the try blocks of the callback, the number     *)
(* that leave it: each catch block swallows its error.                      *)
Escaping(n) == 0

\* The request after n errors were thrown inside a try block of the callback
Thrown(req, n) ==
    [req EXCEPT !.swallowed = @ + (n - Escaping(n)), !.escaped = @ + Escaping(n)]

ResolveTwice(req, outcome, errs) ==
    Thrown([req EXCEPT !.calls = @ + 2,
                       !.handled = req.icpt,
                       !.state = IF req.icpt THEN outcome ELSE "free"],
           errs + 1)

(* `try { if (!request.isInterceptResolutionHandled()) await request.X() }  *)
(* catch {}` with X continue or abort.  A handled request is skipped.  On   *)
(* a request issued without interception the call throws.  Otherwise the    *)
(* request is marked handled and ends in outcome, the call raising errs     *)
(* errors (the browser may be gone).                                        *)
Resolve(req, outcome, errs) ==
    IF req.handled THEN req
    ELSE IF ~req.icpt
         THEN Thrown([req EXCEPT !.calls = @ + 1, !.state = "free"], 1)
         ELSE Thrown([req EXCEPT !.calls = @ + 1, !.handled = TRUE,
                                 !.state = outcome], errs)

(* A request event is delivered and the callback runs to its first await.   *)
(* When the capture resolves linkFoundPromise while the main flow is        *)
(* suspended on the race, the flow resumes right after this run and enters  *)
(* the finally block.                                                       *)
Observe(r, u) ==
    /\ SessionLive(r)
    /\ Listening(r)
    /\ Observed < MaxRequests
    /\ LET link == m3u8Link[r]
           icpt == intercept[r] = "on"
           before == timer[r] = "pending"
       IN  IF IsCapture(u, link)
           THEN /\ m3u8Link' = [s \in TwoSessions |->
                                    IF s \in Scope(r) THEN Str(u) ELSE m3u8Link[s]]
                /\ resolved' = [s \in TwoSessions |->
                                    IF s \in Scope(r) THEN TRUE ELSE resolved[s]]
                \* `currentPage && !currentPage.isClosed()`: the page may
                \* already be closed once browser.close() is under way
                /\ \E pageClosed \in (IF pc[r] = "closing" THEN BOOLEAN ELSE {FALSE}) :
                     IF ~pageClosed
                     THEN /\ intercept' = [intercept EXCEPT ![r] = "off"]
                          /\ reqs' = [reqs EXCEPT ![r] = Append(@,
                                Request(u, icpt, before, "disable"))]
                     ELSE /\ UNCHANGED intercept
                          /\ reqs' = [reqs EXCEPT ![r] = Append(@,
                                Resolve(Request(u, icpt, before, "done"),
                                        "aborted", 0))]
                /\ IF pc[r] = "wait"
                   THEN /\ winner' = [winner EXCEPT ![r] = "link"]
                        /\ Finally(r, Str(u))
                   ELSE UNCHANGED <<winner, pc, closeCalls, response>>
           ELSE /\ reqs' = [reqs EXCEPT ![r] = Append(@,
                      Resolve(Request(u, icpt, before, "done"),
                              IF IsContinue(u, link) THEN "continued"
                              ELSE "aborted",
                              0))]
                /\ UNCHANGED <<m3u8Link, resolved, intercept, winner, pc,
                               closeCalls, response>>
    /\ UNCHANGED <<url, browser, timer, nav>>

(* setRequestInterception(false) of the capturing callback settles (it      *)
(* rejects once the browser is gone); the callback then calls               *)
(* request.abort() and finishes.  Disabling interception releases the       *)
(* requests the browser holds, so whether the abort still takes effect is   *)
(* decided by the browser; after the browser is closed abort() rejects.     *)
(* Both errors are caught inside the callback.                              *)
DisableSettle(r, i) ==
    /\ i \in 1..Len(reqs[r])
    /\ reqs[r][i].h = "disable"
    /\ \E ok \in (IF SessionLive(r) THEN BOOLEAN ELSE {FALSE}) :
       \E outcome \in (IF reqs[r][i].state # "paused" THEN {reqs[r][i].state}
                       ELSE IF SessionLive(r) THEN {"aborted", "free"}
                       ELSE {"paused"}) :
          reqs' = [reqs EXCEPT ![r][i] =
                      Resolve(Thrown([@ EXCEPT !.h = "done"], IF ok THEN 0 ELSE 1),
                              outcome,
                              IF SessionLive(r) THEN 0 ELSE 1)]
    /\ UNCHANGED <<pc, url, browser, m3u8Link, resolved, timer, winner, nav,
                   intercept, closeCalls, response>>

----------------------------------------------------------------------------
(* Specifications *)

\* The url the route handler passes: targetUrl
RouteUrls == {Str(TargetUrl)}

\* Arguments of findMinimalM3u8Link taken on its own: absent, empty, a url
AnyUrls == {Null, Str(<< >>), Str(TargetUrl)}

Step(r, U, Us) ==
    \/ Call(r, U)
    \/ LaunchOk(r)
    \/ LaunchFail(r)
    \/ NewPageOk(r)
    \/ SetUserAgentOk(r)
    \/ SetInterceptionOk(r)
    \/ SetupFail(r)
    \/ NavOk(r)
    \/ NavFail(r)
    \/ TimerFire(r)
    \/ \E u \in Us : Observe(r, u)
    \/ \E i \in 1..MaxRequests : DisableSettle(r, i)
    \/ CloseOk(r)
    \/ CloseFail(r)

\* With two sessions, the manifest each page requests is its own
UrlsOf(r) == IF r = 1 THEN {UrlA, UrlX} ELSE {UrlB, UrlX}

\* One GET /scrape request
Next == \E r \in OneSession : Step(r, RouteUrls, Urls)

Spec == Init /\ [][Next]_vars

\* Two GET /scrape requests handled concurrently
NextTwo == \E r \in TwoSessions : Step(r, RouteUrls, UrlsOf(r))

SpecTwo == Init /\ [][NextTwo]_vars

\* findMinimalM3u8Link called with any argument
NextFn == \E r \in OneSession : Step(r, AnyUrls, Urls)

SpecFn == Init /\ [][NextFn]_vars

(* One request under the scheduling the runtime guarantees: a pending       *)
(* promise of the browser settles, a started timer fires, and a runnable    *)
(* continuation runs.                                                       *)
Fairness ==
    \A r \in OneSession :
        /\ WF_vars(Call(r, RouteUrls))
        /\ WF_vars(LaunchOk(r) \/ LaunchFail(r))
        /\ WF_vars(NewPageOk(r) \/ SetUserAgentOk(r) \/ SetInterceptionOk(r)
                   \/ SetupFail(r))
        /\ WF_vars(TimerFire(r))
        /\ WF_vars(CloseOk(r) \/ CloseFail(r))

FairSpec == Spec /\ Fairness

----------------------------------------------------------------------------
(* Properties *)

\* A response has been sent for invocation r
Responded(r) == response[r] # << >>

\* The observed requests of session r whose URL ends with ".m3u8"
Qualifying(r) == {i \in 1..Len(reqs[r]) : EndsWith(reqs[r][i].url, Suffix)}

\* The first of them in observation order
FirstQualifying(r) == CHOOSE i \in Qualifying(r) : \A j \in Qualifying(r) : i <= j

(* C1: when a request ending in ".m3u8" was observed before the timer       *)
(* fired, the link sent in the response is the URL of the first such        *)
(* request, whatever qualifying requests came later.                        *)
C1_FirstMatchReturned ==
    \A r \in TwoSessions :
        (/\ Responded(r)
         /\ Qualifying(r) # {}
         /\ reqs[r][FirstQualifying(r)].beforeDeadline)
        => response[r][1].link = Str(reqs[r][FirstQualifying(r)].url)

\* A response was sent after two different qualifying requests, the first
\* of them observed before the deadline
C1_Witness ==
    \E r \in TwoSessions :
        /\ Responded(r)
        /\ Qualifying(r) # {}
        /\ reqs[r][FirstQualifying(r)].beforeDeadline
        /\ \E j \in Qualifying(r) :
              reqs[r][j].url # reqs[r][FirstQualifying(r)].url

(* C2 as stated: when the timer wins the race with no link captured, the    *)
(* link sent is null, also when a request ending in ".m3u8" is observed     *)
(* afterwards while the browser is being closed.                            *)
C2_ResultFixedAtRaceEnd ==
    \A r \in TwoSessions :
        (/\ Responded(r)
         /\ winner[r] = "timer"
         /\ \A i \in Qualifying(r) : ~reqs[r][i].beforeDeadline)
        => response[r][1].link = Null

(* C2, amended: the link sent is the value of m3u8Link once browser.close() *)
(* has completed.  When the timer wins the race with no link captured, the  *)
(* link sent is null if no request ending in ".m3u8" is observed while the  *)
(* browser is being closed, and otherwise the URL of the first such         *)
(* request.                                                                 *)
C2_ResultAtTeardown ==
    \A r \in TwoSessions :
        (Responded(r) /\ winner[r] = "timer")
        => response[r][1].link =
              IF Qualifying(r) = {} THEN Null
              ELSE Str(reqs[r][FirstQualifying(r)].url)

\* The timer won the race, a manifest request was observed during the
\* close, and the response has been sent
C2_Witness ==
    \E r \in TwoSessions :
        /\ Responded(r)
        /\ winner[r] = "timer"
        /\ Qualifying(r) # {}
        /\ ~reqs[r][FirstQualifying(r)].beforeDeadline

\* The request that captured the link, if any
Capturing(r) == {i \in Qualifying(r) : i = FirstQualifying(r)}

(* C3 as stated: every request observed after the capture ends aborted;     *)
(* none is continued or left to run without interception.                   *)
C3_LaterRequestsAborted ==
    \A r \in TwoSessions :
        \A i \in 1..Len(reqs[r]) :
            (\E c \in Capturing(r) : c < i) => reqs[r][i].state = "aborted"

(* C4 as stated: no error raised inside the search reaches the HTTP layer;  *)
(* findMinimalM3u8Link always returns, also when browser.close() rejects,   *)
(* so the promise the route handler awaits is never rejected.               *)
C4_NoErrorReachesHttpLayer ==
    \A r \in TwoSessions : pc[r] # "rejected"

(* C5: browser.close() is never invoked twice, never without a launched     *)
(* browser, and whenever a response is sent for a request that launched a   *)
(* browser it has been invoked exactly once and has completed.              *)
C5_ClosedOnceBeforeResponse ==
    \A r \in TwoSessions :
        /\ closeCalls[r] <= 1
        /\ browser[r] = "null" => closeCalls[r] = 0
        /\ (Responded(r) /\ browser[r] # "null")
              => (closeCalls[r] = 1 /\ browser[r] = "closed")

\* A response was sent after a setup error with a launched browser
C5_Witness ==
    \E r \in TwoSessions :
        /\ Responded(r)
        /\ browser[r] = "closed"
        /\ closeCalls[r] = 1
        /\ timer[r] = "unset"

(* C6: every response body has a link that is null or a string ending in    *)
(* ".m3u8".                                                                 *)
C6_LinkShape ==
    \A r \in TwoSessions :
        \A i \in 1..Len(response[r]) :
            \/ response[r][i].link = Null
            \/ EndsWith(response[r][i].link.str, Suffix)

\* A response carrying a link was sent although a URL that merely contains
\* ".m3u8" had been observed first
C6_Witness ==
    \E r \in TwoSessions :
        /\ Responded(r)
        /\ response[r][1].link # Null
        /\ Len(reqs[r]) >= 2
        /\ reqs[r][1].url = UrlY

(* C7 as stated: once setup has completed, the request eventually receives  *)
(* its one response.                                                        *)
C7_EventuallyAnswered ==
    \A r \in OneSession : (pc[r] = "wait") ~> (Len(response[r]) = 1)

\* The fields of invocation r
SessionState(r) ==
    <<pc[r], url[r], browser[r], m3u8Link[r], resolved[r], timer[r],
      winner[r], nav[r], intercept[r], reqs[r], closeCalls[r], response[r]>>

\* The link invocation r holds according to the requests its own session
\* observed
OwnLink(r) ==
    IF Qualifying(r) = {} THEN Null ELSE Str(reqs[r][FirstQualifying(r)].url)

(* C8: two concurrent requests are independent.  In every state the         *)
(* captured link and the completion signal of each are determined by the    *)
(* requests observed in its own session, a response carries that link, and  *)
(* every step changes the fields of one invocation only.                    *)
C8_Independent ==
    /\ [](\A r \in TwoSessions :
            /\ m3u8Link[r] = OwnLink(r)
            /\ resolved[r] = (Qualifying(r) # {})
            /\ Responded(r) => response[r][1].link = OwnLink(r))
    /\ [][\E r \in TwoSessions :
            \A o \in TwoSessions \ {r} : SessionState(o)' = SessionState(o)]_vars

\* One request captured a link and was answered while the other timed out
\* and failed to close
C8_Witness ==
    \E r \in TwoSessions : \E o \in TwoSessions \ {r} :
        /\ Responded(r)
        /\ response[r][1].link # Null
        /\ winner[o] = "timer"
        /\ pc[o] = "rejected"
        /\ m3u8Link[o] = Null

(* C9: findMinimalM3u8Link called with an absent or empty url returns null  *)
(* without launching a browser, registering the callback, starting          *)
(* navigation or starting the timer.                                        *)
C9_MissingUrlReturnsNull ==
    \A r \in TwoSessions :
        (pc[r] # "idle" /\ url[r] \in {Null, Str(<< >>)})
        => /\ response[r] = <<[link |-> Null]>>
           /\ pc[r] = "responded"
           /\ browser[r] = "null"
           /\ closeCalls[r] = 0
           /\ intercept[r] = "off"
           /\ nav[r] = "none"
           /\ timer[r] = "unset"
           /\ reqs[r] = << >>

\* The function was called with the empty string
C9_Witness ==
    \E r \in TwoSessions : pc[r] # "idle" /\ url[r] = Str(<< >>)

(* C10: the captured link is write-once: once m3u8Link is non-null no step  *)
(* changes it.                                                              *)
C10_WriteOnce ==
    [][\A r \in TwoSessions :
          m3u8Link[r] # Null => m3u8Link'[r] = m3u8Link[r]]_vars

\* A link is held and a different manifest request was observed after it
C10_Witness ==
    \E r \in TwoSessions :
        \E i \in Qualifying(r) : \E j \in Qualifying(r) :
            /\ i < j
            /\ reqs[r][i].url # reqs[r][j].url
            /\ m3u8Link[r] = Str(reqs[r][i].url)

(* C11: the callback resolves no request more than once: it makes at most   *)
(* one continue() or abort() call per request, a request is handled only    *)
(* through that one call, and no error of the callback escapes it.          *)
C11_ResolvedAtMostOnce ==
    \A r \in TwoSessions :
        \A i \in 1..Len(reqs[r]) :
            /\ reqs[r][i].calls <= 1
            /\ reqs[r][i].handled => reqs[r][i].calls = 1
            /\ reqs[r][i].state \in {"continued", "aborted"} => reqs[r][i].handled
            /\ reqs[r][i].escaped = 0

\* A request was continued, and the capturing request after it went through
\* the disable step and its abort call
C11_Witness ==
    \E r \in TwoSessions :
        \E i \in 1..Len(reqs[r]) : \E j \in 1..Len(reqs[r]) :
            /\ i < j
            /\ reqs[r][i].state = "continued"
            /\ reqs[r][i].calls = 1
            /\ j \in Capturing(r)
            /\ reqs[r][j].h = "done"
            /\ reqs[r][j].handled
            /\ reqs[r][j].calls = 1

(* C12 as stated: the request that triggers the capture never proceeds to   *)
(* completion: it is not continued and does not run free of the callback's  *)
(* decision.                                                                *)
C12_CapturingRequestAborted ==
    \A r \in TwoSessions :
        \A i \in Capturing(r) : reqs[r][i].state \notin {"continued", "free"}

(* C13: a request is aborted only when a link has been captured, and every  *)
(* request not ending in ".m3u8" that is observed before any capture is     *)
(* continued.                                                               *)
C13_ContinuedUntilCapture ==
    \A r \in TwoSessions :
        \A i \in 1..Len(reqs[r]) :
            /\ reqs[r][i].state = "aborted" => m3u8Link[r] # Null
            /\ (/\ ~EndsWith(reqs[r][i].url, Suffix)
                /\ \A c \in Capturing(r) : i < c)
               => reqs[r][i].state = "continued"

\* A request whose URL contains ".m3u8" without ending in it was continued
\* and the next request captured the link
C13_Witness ==
    \E r \in TwoSessions :
        /\ Len(reqs[r]) = 2
        /\ reqs[r][1].url = UrlY
        /\ reqs[r][1].state = "continued"
        /\ 2 \in Capturing(r)
        /\ m3u8Link[r] = Str(reqs[r][2].url)

(* C14: a rejection of page.goto is not escalated.  The step in which it    *)
(* is delivered leaves the main flow, the captured link, the close count    *)
(* and the response as they are, and a response sent for a request whose    *)
(* navigation failed still carries the captured link.                       *)
C14_NavFailureNotEscalated ==
    /\ [][\A r \in TwoSessions :
            (nav[r] = "pending" /\ nav'[r] = "failed")
            => /\ pc'[r] = pc[r]
               /\ m3u8Link'[r] = m3u8Link[r]
               /\ closeCalls'[r] = closeCalls[r]
               /\ response'[r] = response[r]]_vars
    /\ [](\A r \in TwoSessions :
            (Responded(r) /\ nav[r] = "failed" /\ Qualifying(r) # {})
            => response[r][1].link = Str(reqs[r][FirstQualifying(r)].url))

\* Navigation failed, a link was captured before the deadline and the
\* response carries it
C14_Witness ==
    \E r \in TwoSessions :
        /\ Responded(r)
        /\ nav[r] = "failed"
        /\ winner[r] = "link"
        /\ response[r][1].link # Null

\* Setup of invocation r failed: the flow passed the url check and left the
\* try block without starting the timer
SetupFailed(r) ==
    /\ Truthy(url[r])
    /\ timer[r] = "unset"
    /\ pc[r] \in {"closing", "responded", "rejected"}

(* C15 as stated: after a failure of launch, page creation, user-agent      *)
(* setup or enabling interception, navigation and the timer are not         *)
(* started, the browser is closed when one was launched, no exception       *)
(* reaches the caller and the result is null.                               *)
C15_SetupFailureReturnsNull ==
    \A r \in TwoSessions :
        SetupFailed(r)
        => /\ nav[r] = "none"
           /\ reqs[r] = << >>
           /\ browser[r] # "null" => closeCalls[r] = 1
           /\ pc[r] # "rejected"
           /\ Responded(r) => response[r][1].link = Null

(* C16 as stated: when the response is sent the request has no live         *)
(* browser, no pending timer and no callback still running.                 *)
C16_NothingOutlivesRequest ==
    \A r \in TwoSessions :
        Responded(r)
        => /\ browser[r] \in {"null", "closed"}
           /\ timer[r] # "pending"
           /\ \A i \in 1..Len(reqs[r]) : reqs[r][i].h = "done"

(* C17: the best-effort steps of the capturing callback never produce an    *)
(* unhandled rejection, the step in which they run changes neither the      *)
(* link nor the main flow nor the response, and a response sent carries     *)
(* the link of the first qualifying request whatever these steps threw.     *)
C17_BestEffortStepsSwallowed ==
    /\ [](\A r \in TwoSessions :
            /\ \A i \in 1..Len(reqs[r]) : reqs[r][i].escaped = 0
            /\ Responded(r) => response[r][1].link = OwnLink(r))
    /\ [][\A r \in TwoSessions :
            (\E i \in 1..Len(reqs[r]) :
                reqs[r][i].h = "disable" /\ reqs'[r][i].h = "done")
            => /\ m3u8Link'[r] = m3u8Link[r]
               /\ pc'[r] = pc[r]
               /\ response'[r] = response[r]]_vars

\* The capturing callback finished after the browser was closed, both of
\* its best-effort steps threw, and the response carries the link
C17_Witness ==
    \E r \in TwoSessions :
        \E i \in Capturing(r) :
            /\ Responded(r)
            /\ reqs[r][i].h = "done"
            /\ reqs[r][i].swallowed = 2
            /\ response[r][1].link = Str(reqs[r][i].url)

(* C18: once setup succeeded the wait ends only through the capture signal  *)
(* or the timer.  A wait ended by the signal has a link recorded and a      *)
(* response then carries it; a null link is sent only after the timer won   *)
(* the race.                                                                *)
C18_WaitEndsBySignalOrTimer ==
    \A r \in TwoSessions :
        (timer[r] # "unset" /\ pc[r] # "wait")
        => /\ winner[r] \in {"link", "timer"}
           /\ winner[r] = "link" => (resolved[r] /\ m3u8Link[r] # Null)
           /\ winner[r] = "timer" => timer[r] = "fired"
           /\ (Responded(r) /\ winner[r] = "link") => response[r][1].link # Null
           /\ (Responded(r) /\ response[r][1].link = Null)
                 => (winner[r] = "timer" /\ timer[r] = "fired")

\* Navigation failed and no manifest was requested; null was sent after the
\* timer fired
C18_Witness ==
    \E r \in TwoSessions :
        /\ Responded(r)
        /\ response[r][1].link = Null
        /\ nav[r] = "failed"
        /\ timer[r] = "fired"
        /\ reqs[r] # << >>

====
